---- MODULE Spec2Model ----
(***************************************************************************)
(* aioevproc: the handler registry built by the handler(...) decorator and *)
(* EventsProcessor.__init_subclass__, and the dispatch loop of             *)
(* EventsProcessor.process_event with its AsyncExitStack of middlewares.   *)
(***************************************************************************)
EXTENDS Integers, Sequences, FiniteSets, TLC

\* Largest number of members in the class body of the processor type.
MaxHandlers == 2

\* ------------------------------------------------------------------------
\* Inputs supplied by the caller: events, predicates, class bodies.

\* An event is an opaque mapping; the test predicates only read two flags.
Events == [a : BOOLEAN, b : BOOLEAN]

\* What calling predicate p on event e does: it returns a bool or raises.
\* Predicates "a" and "b" read the event, "r" always raises.
PredOutcome(p, e) ==
    IF p = "r" THEN "raise"
    ELSE IF e[p] THEN "true" ELSE "false"

\* The decorator stacks a method of the class body may carry, written as in
\* the source from the top (outermost) decorator to the bottom (innermost);
\* each element is the argument tuple of one handler(...) call.
AnnotationStacks ==
    { <<>>,                                   \* a plain method, no decorator
      << <<>> >>,                             \* @handler()
      << <<"a">>, <<"b">> >>,                 \* @handler(a) @handler(b)
      << <<"a", "b">>, <<"b", "r">>, <<"b">> >>,
                            \* @handler(a, b) @handler(b, r) @handler(b)
      << <<>>, <<"a">> >>,                    \* @handler() @handler(a)
      << <<"a">>, <<>> >>,                    \* @handler(a) @handler()
      << <<>>, <<>> >> }                      \* @handler() @handler()

RECURSIVE SeqsUpTo(_, _)
SeqsUpTo(S, n) ==
    IF n = 0 THEN { <<>> }
    ELSE LET shorter == SeqsUpTo(S, n - 1)
         IN  shorter \cup { Append(s, x) : s \in shorter, x \in S }

\* Class bodies: member k of the body is the method named k.
ClassBodies == SeqsUpTo(AnnotationStacks, MaxHandlers)

\* Values a handler may return or resolve to.
Values == {"True", "abc", "False", "None"}

\* Values the entry action of a scope may return.
EntryValues == {"True", "False"}

\* Variant: only the literal False stops (`is False`).
Truthy_notFalse(v) == v # "False"

\* Variant: only the literal True continues (`is True`).
Truthy_isTrue(v) == v = "True"

\* Python truthiness of those values (`not call_next_handlers`, line 89).
Truthy(v) == v \in {"True", "abc"}

\* ------------------------------------------------------------------------
\* The handler(...) decorator and the registry.

\* State of the __handler_predicates__ attribute of a method.
Absent == [kind |-> "absent", list |-> <<>>]
NoneAttr == [kind |-> "none", list |-> <<>>]
ListAttr(l) == [kind |-> "list", list |-> l]
AssertionError == [kind |-> "AssertionError", list |-> <<>>]

\* Variant: handler() sets the attribute to None without the assertion of
\* line 34.
decorator_noAssertUnconditional(attr, predicates) ==
    IF attr.kind = "AssertionError" THEN attr
    ELSE IF predicates = <<>>
    THEN NoneAttr
    ELSE LET cur == IF attr.kind = "absent" THEN ListAttr(<<>>) ELSE attr
         IN  IF cur.kind = "none" THEN AssertionError
             ELSE ListAttr(Append(cur.list, predicates))

\* handler(*predicates)(handler_method), on the attribute of handler_method.
decorator(attr, predicates) ==
    IF attr.kind = "AssertionError" THEN attr
    ELSE IF predicates = <<>>
    THEN IF attr.kind # "absent" THEN AssertionError ELSE NoneAttr
    ELSE LET cur == IF attr.kind = "absent" THEN ListAttr(<<>>) ELSE attr
         IN  IF cur.kind = "none" THEN AssertionError
             ELSE ListAttr(Append(cur.list, predicates))

\* A decorator stack is applied bottom-up: the innermost decorator first.
RECURSIVE Decorate(_)
Decorate(annots) ==
    IF annots = <<>> THEN Absent
    ELSE decorator(Decorate(Tail(annots)), Head(annots))

\* Variant: the stored list is used as accumulated, innermost first.
reversed_identity(s) == s

reversed(s) == [k \in 1..Len(s) |-> s[Len(s) + 1 - k]]

\* The names the statements of a body of n statements bind when every
\* statement defines a method of its own.
DistinctNames(n) == [k \in 1..n |-> k]

\* The namespace the body of class cls leaves, statement k binding the name
\* nm[k] to a method decorated with src[k]: a dict, which holds one member
\* per name, in the order the names were first bound, with the value bound
\* last (binding a name again replaces the value and keeps the position).
ClassDict(src, nm, cls) ==
    LET firsts == SelectSeq([k \in 1..Len(src) |-> k],
                            LAMBDA k : \A j \in 1..(k - 1) : nm[j] # nm[k])
        last(k) == CHOOSE m \in k..Len(src) :
                       /\ nm[m] = nm[k]
                       /\ \A j \in (m + 1)..Len(src) : nm[j] # nm[k]
    IN  [i \in 1..Len(firsts) |->
            [name |-> nm[firsts[i]],
             defined_in |-> cls,
             handler_method |-> last(firsts[i]),
             attr |-> Decorate(src[last(firsts[i])])]]

\* Variant: the members are collected over the whole MRO (as dir(cls) with
\* getattr does): the inherited ones that are not overridden, then the own.
cls_dict_withInherited(own, inherited) ==
    SelectSeq(inherited,
              LAMBDA m : \A i \in DOMAIN own : own[i].name # m.name) \o own

\* cls.__dict__ (line 67): the members of the body of cls itself, whatever
\* its base classes hold.
cls_dict(own, inherited) == own

BodyRaises(src) ==
    \E k \in 1..Len(src) : Decorate(src[k]).kind = "AssertionError"

HasHandlerAttr(member) == member.attr.kind # "absent"

RegistryEntry(member) ==
    [or_predicates |->
        IF member.attr.kind # "none"
        THEN ListAttr(reversed(member.attr.list))
        ELSE NoneAttr,
     handler_method |-> member.handler_method,
     defined_in |-> member.defined_in]

\* Variant: the registry is built last member first.
init_subclass_reversed(members) ==
    LET kept == SelectSeq(members, HasHandlerAttr)
    IN  [k \in 1..Len(kept) |-> RegistryEntry(kept[Len(kept) + 1 - k])]

\* EventsProcessor.__init_subclass__: cls._handlers, from the members of
\* cls.__dict__.
init_subclass(members) ==
    LET kept == SelectSeq(members, HasHandlerAttr)
    IN  [k \in 1..Len(kept) |-> RegistryEntry(kept[k])]

\* ------------------------------------------------------------------------
\* Exceptions: a type and the declaration it came from (0 when none).
NoExc == [type |-> "None", origin |-> 0]
Exc(type, origin) == [type |-> type, origin |-> origin]
CancelledError == Exc("CancelledError", 0)

\* One line of the call log kept by the mocks of the caller.
LogEntry(op, c, i) ==
    [op |-> op, c |-> c, i |-> i, k |-> 0, j |-> 0, name |-> "",
     arg |-> [a |-> FALSE, b |-> FALSE], etype |-> "None", eorig |-> 0]

VARIABLES
    source,          \* the class body of the processor type: its decorators
    names,           \* the name each statement of that body binds
    classState,      \* "defining", "defined" or "failed" (AssertionError)
    handlers,        \* cls._handlers of the processor type
    base,            \* the processor type it subclasses, if any
    pc,              \* per call: position in process_event
    event,           \* per call: the event argument
    idx,             \* per call: index of the declaration the loop is at
    clause,          \* per call: AND-clause being evaluated by any(...)
    pred,            \* per call: predicate being evaluated by all(...)
    ret_val,         \* per call: kind of the value handler_method returned
    call_next_handlers, \* per call: the local of that name (lines 80-89)
    enter_result,    \* per call: what the last scope entry action returned
    cb,              \* per call: the exit callback __aexit__ popped last
    exit_callbacks,  \* per call: middlewares_stack._exit_callbacks
    body_exc,        \* per call: exception the `async with` body ended with
    exc_details,     \* per call: exception handed to the next exit callback
    suppressed_exc,  \* per call: __aexit__'s suppressed_exc
    pending_raise,   \* per call: __aexit__'s pending_raise
    result,          \* per call: how process_event ended
    trace            \* per call: log of predicates, handlers, entries, exits

vars == <<source, names, classState, handlers, base, pc, event, idx, clause,
          pred, ret_val, call_next_handlers, enter_result, cb,
          exit_callbacks, body_exc, exc_details, suppressed_exc,
          pending_raise, result, trace>>

classVars == <<source, names, classState, handlers, base>>
predVars == <<clause, pred>>
exitVars == <<body_exc, exc_details, suppressed_exc, pending_raise>>
handlerVars == <<ret_val, call_next_handlers>>
callVars == <<pc, event, idx, predVars, handlerVars, enter_result, cb,
              exit_callbacks, exitVars, result, trace>>

Calls == DOMAIN pc

NoCallback == [is_sync |-> TRUE, scope |-> 0]
Callback(is_sync, scope) == [is_sync |-> is_sync, scope |-> scope]

NoResult == [how |-> "running", exc |-> NoExc]

InitCalls(cs) ==
    /\ pc = [c \in cs |-> "idle"]
    /\ event = [c \in cs |-> [a |-> FALSE, b |-> FALSE]]
    /\ idx = [c \in cs |-> 0]
    /\ clause = [c \in cs |-> 0]
    /\ pred = [c \in cs |-> 0]
    /\ ret_val = [c \in cs |-> "unset"]
    /\ call_next_handlers = [c \in cs |-> "unset"]
    /\ enter_result = [c \in cs |-> "unset"]
    /\ cb = [c \in cs |-> NoCallback]
    /\ exit_callbacks = [c \in cs |-> <<>>]
    /\ body_exc = [c \in cs |-> NoExc]
    /\ exc_details = [c \in cs |-> NoExc]
    /\ suppressed_exc = [c \in cs |-> FALSE]
    /\ pending_raise = [c \in cs |-> FALSE]
    /\ result = [c \in cs |-> NoResult]
    /\ trace = [c \in cs |-> <<>>]

\* EventsProcessor itself, the base of a type defined directly from it, has
\* no _handlers and no annotated member.
NoBase == [defined |-> FALSE, source |-> <<>>, names |-> <<>>,
           handlers |-> <<>>]

\* A processor type that has been subclassed.
BaseClass(src, nm, hs) ==
    [defined |-> TRUE, source |-> src, names |-> nm, handlers |-> hs]

Init ==
    /\ source \in ClassBodies
    /\ names = DistinctNames(Len(source))
    /\ classState = "defining"
    /\ handlers = <<>>
    /\ base = NoBase
    /\ InitCalls({1})

\* ------------------------------------------------------------------------
\* Class definition, `class Base(EventsProcessor): ...`: the decorators run,
\* then __init_subclass__.
DefineClass ==
    /\ classState = "defining"
    /\ IF BodyRaises(source)
       THEN /\ classState' = "failed"
            /\ handlers' = handlers
       ELSE /\ classState' = "defined"
            /\ handlers' = init_subclass(
                               cls_dict(ClassDict(source, names, "Base"),
                                        <<>>))
    /\ UNCHANGED <<source, names, base, callVars>>

\* `class Derived(Base): ...` with one of the given bodies: the decorators
\* run, then __init_subclass__ with cls = Derived. From then on
\* process_event is called on instances of Derived, whose self._handlers is
\* the attribute line 58 set on Derived.
Subclass(bodies) ==
    /\ classState = "defined"
    /\ ~base.defined
    /\ \A c \in Calls : pc[c] = "idle"
    /\ base' = BaseClass(source, names, handlers)
    /\ \E body \in bodies :
          /\ source' = body.source
          /\ names' = body.names
          /\ IF BodyRaises(body.source)
             THEN /\ classState' = "failed"
                  /\ handlers' = <<>>
             ELSE /\ classState' = "defined"
                  /\ handlers' = init_subclass(
                         cls_dict(ClassDict(body.source, body.names,
                                            "Derived"),
                                  ClassDict(source, names, "Base")))
    /\ UNCHANGED callVars

\* ------------------------------------------------------------------------
\* process_event (lines 71-90).

Set(f, c, v) == [f EXCEPT ![c] = v]

\* The log of call c with one more line.
Logged(c, e) == Set(trace, c, Append(trace[c], e))

\* The `async with` body is left: normally (e = NoExc, by break or at the end
\* of the loop) or by the exception e. AsyncExitStack.__aexit__ starts.
LeaveBody(c, e) ==
    /\ pc' = Set(pc, c, "aexit")
    /\ body_exc' = Set(body_exc, c, e)
    /\ exc_details' = Set(exc_details, c, e)
    /\ suppressed_exc' = Set(suppressed_exc, c, FALSE)
    /\ pending_raise' = Set(pending_raise, c, FALSE)

\* Line 89-90, then back to line 73: the next declaration, or break.
NextPc(cnh) == IF Truthy(cnh) THEN "for" ELSE "aexit"

AfterHandler(c, cnh) ==
    /\ call_next_handlers' = Set(call_next_handlers, c, cnh)
    /\ IF NextPc(cnh) = "for"
       THEN /\ pc' = Set(pc, c, "for")
            /\ idx' = Set(idx, c, idx[c] + 1)
            /\ UNCHANGED exitVars
       ELSE /\ LeaveBody(c, NoExc)
            /\ UNCHANGED idx

\* process_event(event) is called on an instance of the defined class and
\* enters `async with AsyncExitStack()` (line 72).
Start(c) ==
    /\ classState = "defined"
    /\ pc[c] = "idle"
    /\ \E e \in Events : event' = Set(event, c, e)
    /\ pc' = Set(pc, c, "for")
    /\ idx' = Set(idx, c, 1)
    /\ exit_callbacks' = Set(exit_callbacks, c, <<>>)
    /\ UNCHANGED <<classVars, predVars, handlerVars, enter_result, cb,
                   exitVars, result, trace>>

\* Variant: a declaration without predicates is passed over like one whose
\* predicates do not match (`not any(... for ... in or_predicates or ())`).
ForNext_noneNeverMatches(c) ==
    /\ pc[c] = "for"
    /\ IF idx[c] > Len(handlers)
       THEN /\ LeaveBody(c, NoExc)
            /\ UNCHANGED <<idx, predVars>>
       ELSE /\ IF handlers[idx[c]].or_predicates.kind = "none"
               THEN /\ pc' = Set(pc, c, "for")
                    /\ idx' = Set(idx, c, idx[c] + 1)
                    /\ UNCHANGED predVars
               ELSE /\ pc' = Set(pc, c, "preds")
                    /\ clause' = Set(clause, c, 1)
                    /\ pred' = Set(pred, c, 1)
                    /\ UNCHANGED idx
            /\ UNCHANGED exitVars
    /\ UNCHANGED <<classVars, event, handlerVars, enter_result, cb,
                   exit_callbacks, result, trace>>

\* Line 73-74: the for statement takes the next declaration, if any.
ForNext(c) ==
    /\ pc[c] = "for"
    /\ IF idx[c] > Len(handlers)
       THEN /\ LeaveBody(c, NoExc)
            /\ UNCHANGED predVars
       ELSE /\ IF handlers[idx[c]].or_predicates.kind = "none"
               THEN /\ pc' = Set(pc, c, "call")
                    /\ UNCHANGED predVars
               ELSE /\ pc' = Set(pc, c, "preds")
                    /\ clause' = Set(clause, c, 1)
                    /\ pred' = Set(pred, c, 1)
            /\ UNCHANGED exitVars
    /\ UNCHANGED <<classVars, event, idx, handlerVars, enter_result, cb,
                   exit_callbacks, result, trace>>

\* Variant: all(...) built from a list, every predicate of a clause is called.
PredStep_noShortCircuit(or_list, k, j, outcome) ==
    IF j < Len(or_list[k])
    THEN [pc |-> "preds", clause |-> k, pred |-> j + 1]
    ELSE IF outcome = "true"
         THEN [pc |-> "call", clause |-> k, pred |-> j]
         ELSE IF k < Len(or_list)
              THEN [pc |-> "preds", clause |-> k + 1, pred |-> 1]
              ELSE [pc |-> "skip", clause |-> k, pred |-> j]

\* Variant: any(...) in place of all(...), one true predicate matches.
PredStep_anyPredicate(or_list, k, j, outcome) ==
    IF outcome = "true"
    THEN [pc |-> "call", clause |-> k, pred |-> j]
    ELSE IF j < Len(or_list[k])
         THEN [pc |-> "preds", clause |-> k, pred |-> j + 1]
         ELSE IF k < Len(or_list)
              THEN [pc |-> "preds", clause |-> k + 1, pred |-> 1]
              ELSE [pc |-> "skip", clause |-> k, pred |-> j]

\* Lines 74-78: where any(all(...)) goes after predicate j of clause k of the
\* list or_list answered `outcome`.
PredStep(or_list, k, j, outcome) ==
    IF outcome = "true"
    THEN IF j < Len(or_list[k])
         THEN [pc |-> "preds", clause |-> k, pred |-> j + 1]
         ELSE [pc |-> "call", clause |-> k, pred |-> j]
    ELSE IF k < Len(or_list)
         THEN [pc |-> "preds", clause |-> k + 1, pred |-> 1]
         ELSE [pc |-> "skip", clause |-> k, pred |-> j]

\* The argument a predicate is called with (line 75).
PredArg(c) == event[c]

\* Variant: an error raised by a predicate is caught and read as False.
CallPredicate_raiseIsFalse(c) ==
    /\ pc[c] = "preds"
    /\ LET or_list == handlers[idx[c]].or_predicates.list
           p == or_list[clause[c]][pred[c]]
           outcome == PredOutcome(p, PredArg(c))
           read == IF outcome = "raise" THEN "false" ELSE outcome
           next == PredStep(or_list, clause[c], pred[c], read)
       IN  /\ trace' = Logged(c,
                  [LogEntry("pred", c, idx[c]) EXCEPT
                      !.k = clause[c], !.j = pred[c], !.name = p,
                      !.arg = PredArg(c), !.etype = outcome])
           /\ clause' = Set(clause, c, next.clause)
           /\ pred' = Set(pred, c, next.pred)
           /\ IF next.pc = "skip"
              THEN /\ pc' = Set(pc, c, "for")
                   /\ idx' = Set(idx, c, idx[c] + 1)
              ELSE /\ pc' = Set(pc, c, next.pc)
                   /\ UNCHANGED idx
           /\ UNCHANGED exitVars
    /\ UNCHANGED <<classVars, event, handlerVars, enter_result, cb,
                   exit_callbacks, result>>

\* Line 75: one call pred(event).
CallPredicate(c) ==
    /\ pc[c] = "preds"
    /\ LET or_list == handlers[idx[c]].or_predicates.list
           p == or_list[clause[c]][pred[c]]
           outcome == PredOutcome(p, PredArg(c))
           next == PredStep(or_list, clause[c], pred[c], outcome)
       IN  /\ trace' = Logged(c,
                  [LogEntry("pred", c, idx[c]) EXCEPT
                      !.k = clause[c], !.j = pred[c], !.name = p,
                      !.arg = PredArg(c), !.etype = outcome])
           /\ IF outcome = "raise"
              THEN /\ LeaveBody(c, Exc("PredicateError", idx[c]))
                   /\ UNCHANGED <<idx, predVars>>
              ELSE /\ clause' = Set(clause, c, next.clause)
                   /\ pred' = Set(pred, c, next.pred)
                   /\ IF next.pc = "skip"
                      THEN /\ pc' = Set(pc, c, "for")
                           /\ idx' = Set(idx, c, idx[c] + 1)
                      ELSE /\ pc' = Set(pc, c, next.pc)
                           /\ UNCHANGED idx
                   /\ UNCHANGED exitVars
    /\ UNCHANGED <<classVars, event, handlerVars, enter_result, cb,
                   exit_callbacks, result>>

\* Lines 79-88: handler_method(self, event) is called; it raises or returns a
\* coroutine, a context manager or a plain value.
InvokeHandler(c) ==
    /\ pc[c] = "call"
    /\ LET called == Append(trace[c], [LogEntry("call", c, idx[c]) EXCEPT
                                          !.j = handlers[idx[c]].handler_method,
                                          !.arg = event[c]])
       IN  \/ /\ LeaveBody(c, Exc("HandlerError", idx[c]))
              /\ trace' = Set(trace, c, called)
              /\ UNCHANGED <<idx, handlerVars>>
           \/ \E kind \in {"coroutine", "async_cm", "sync_cm"} :
                 /\ ret_val' = Set(ret_val, c, kind)
                 /\ call_next_handlers' = Set(call_next_handlers, c, "True")
                 /\ pc' = Set(pc, c, CASE kind = "coroutine" -> "await_coro"
                                       [] kind = "async_cm" -> "aenter"
                                       [] kind = "sync_cm" -> "enter")
                 /\ trace' = Set(trace, c, called)
                 /\ UNCHANGED <<idx, exitVars>>
           \/ \E v \in Values :
                 /\ ret_val' = Set(ret_val, c, "value")
                 /\ AfterHandler(c, v)
                 /\ trace' = Set(trace, c,
                                Append(called, LogEntry("ret", c, idx[c])))
    /\ UNCHANGED <<classVars, event, predVars, enter_result, cb,
                   exit_callbacks, result>>

\* Line 82: the awaited coroutine of an async handler resolves or raises.
AwaitCoroutine(c) ==
    /\ pc[c] = "await_coro"
    /\ \/ \E v \in Values :
             /\ AfterHandler(c, v)
             /\ trace' = Logged(c, LogEntry("ret", c, idx[c]))
       \/ /\ LeaveBody(c, Exc("HandlerError", idx[c]))
          /\ UNCHANGED <<idx, call_next_handlers, trace>>
    /\ UNCHANGED <<classVars, event, predVars, ret_val, enter_result, cb,
                   exit_callbacks, result>>

\* Variant: a synchronous scope is entered by hand, its exit never pushed.
Entered_noPush(c, is_sync, v) ==
    /\ exit_callbacks' =
           IF is_sync THEN exit_callbacks
           ELSE Set(exit_callbacks, c,
                    Append(exit_callbacks[c], Callback(is_sync, idx[c])))
    /\ trace' = Logged(c, LogEntry("entered", c, idx[c]))
    /\ enter_result' = Set(enter_result, c, v)
    /\ AfterHandler(c, call_next_handlers[c])

\* Variant: the value of the entry action is taken as the handler's result.
Entered_resultDecides(c, is_sync, v) ==
    /\ exit_callbacks' = Set(exit_callbacks, c,
                             Append(exit_callbacks[c],
                                    Callback(is_sync, idx[c])))
    /\ trace' = Logged(c, LogEntry("entered", c, idx[c]))
    /\ enter_result' = Set(enter_result, c, v)
    /\ AfterHandler(c, v)

\* Variant: the scope only wraps its own declaration (`with ret_val: pass`).
Entered_exitsAtOnce(c, is_sync, v) ==
    /\ UNCHANGED exit_callbacks
    /\ trace' = Set(trace, c,
                    trace[c] \o << LogEntry("entered", c, idx[c]),
                                   LogEntry("exit", c, idx[c]),
                                   LogEntry("exited", c, idx[c]) >>)
    /\ enter_result' = Set(enter_result, c, v)
    /\ AfterHandler(c, call_next_handlers[c])

\* Variant: one stack kept on the instance, the one the first call made;
\* every call pushes onto it.
Entered_sharedStack(c, is_sync, v) ==
    LET first == CHOOSE d \in Calls : \A x \in Calls : d <= x
    IN  /\ exit_callbacks' = Set(exit_callbacks, first,
                                 Append(exit_callbacks[first],
                                        Callback(is_sync, idx[c])))
        /\ trace' = Logged(c, LogEntry("entered", c, idx[c]))
        /\ enter_result' = Set(enter_result, c, v)
        /\ AfterHandler(c, call_next_handlers[c])

\* enter_context / enter_async_context registered the scope of declaration
\* idx[c], whose entry action returned v: its exit is pushed and the loop goes
\* on (call_next_handlers is still True: v is dropped).
Entered(c, is_sync, v) ==
    /\ exit_callbacks' = Set(exit_callbacks, c,
                             Append(exit_callbacks[c],
                                    Callback(is_sync, idx[c])))
    /\ trace' = Logged(c, LogEntry("entered", c, idx[c]))
    /\ enter_result' = Set(enter_result, c, v)
    /\ AfterHandler(c, call_next_handlers[c])

\* Variant: the exit of the scope is registered before its entry action is
\* called (push, then enter).
EnterFailed_pushedFirst(c, e) ==
    /\ LeaveBody(c, e)
    /\ exit_callbacks' = Set(exit_callbacks, c,
                             Append(exit_callbacks[c],
                                    Callback(pc[c] = "enter", idx[c])))
    /\ UNCHANGED <<idx, call_next_handlers, enter_result, trace>>

\* The entry action raised e: enter_context / enter_async_context registers
\* nothing and the error leaves the loop.
EnterFailed(c, e) ==
    /\ LeaveBody(c, e)
    /\ UNCHANGED <<idx, call_next_handlers, exit_callbacks, enter_result,
                   trace>>

\* Line 86: middlewares_stack.enter_context(ret_val); __enter__ returns any
\* value or raises.
EnterContext(c) ==
    /\ pc[c] = "enter"
    /\ \/ \E v \in EntryValues : Entered(c, TRUE, v)
       \/ EnterFailed(c, Exc("EnterError", idx[c]))
    /\ UNCHANGED <<classVars, event, predVars, ret_val, cb, result>>

\* Line 84: await middlewares_stack.enter_async_context(ret_val) completes;
\* __aenter__ returns any value or raises.
EnterAsyncContext(c) ==
    /\ pc[c] = "aenter"
    /\ \/ \E v \in EntryValues : Entered(c, FALSE, v)
       \/ EnterFailed(c, Exc("EnterError", idx[c]))
    /\ UNCHANGED <<classVars, event, predVars, ret_val, cb, result>>

\* The task is cancelled while process_event is suspended at line 82 or 84:
\* CancelledError is raised at the await.
CancelInBody(c) ==
    /\ pc[c] \in {"await_coro", "aenter"}
    /\ LeaveBody(c, CancelledError)
    /\ UNCHANGED <<classVars, event, idx, predVars, handlerVars, enter_result,
                   cb, exit_callbacks, result, trace>>

\* ------------------------------------------------------------------------
\* AsyncExitStack.__aexit__, run by the `async with` of line 72.

\* What one exit callback does: it returns a false value, returns a true
\* value (suppressing), or raises.
ExitOutcomes == {"falsy", "truthy", "raise"}

\* Variant: the first error stays the one to raise, an exit action's error
\* raised while another error is propagating is dropped.
AfterExit_firstErrorWins(st, outcome, raised) ==
    CASE outcome = "truthy" ->
            [st EXCEPT !.suppressed_exc = TRUE, !.pending_raise = FALSE,
                       !.exc_details = NoExc]
      [] outcome = "raise" /\ st.exc_details = NoExc ->
            [st EXCEPT !.pending_raise = TRUE, !.exc_details = raised]
      [] OTHER -> st

\* Variant: an error raised by an exit action is swallowed (`except: pass`).
AfterExit_dropsRaise(st, outcome, raised) ==
    CASE outcome = "truthy" ->
            [st EXCEPT !.suppressed_exc = TRUE, !.pending_raise = FALSE,
                       !.exc_details = NoExc]
      [] OTHER -> st

\* The bookkeeping of __aexit__ after the callback of scope `scope` ended.
AfterExit(st, outcome, raised) ==
    CASE outcome = "truthy" ->
            [st EXCEPT !.suppressed_exc = TRUE, !.pending_raise = FALSE,
                       !.exc_details = NoExc]
      [] outcome = "raise" ->
            [st EXCEPT !.pending_raise = TRUE, !.exc_details = raised]
      [] OTHER -> st

ExitState(c) ==
    [exc_details |-> exc_details[c], suppressed_exc |-> suppressed_exc[c],
     pending_raise |-> pending_raise[c]]

SetExitState(c, st) ==
    /\ exc_details' = Set(exc_details, c, st.exc_details)
    /\ suppressed_exc' = Set(suppressed_exc, c, st.suppressed_exc)
    /\ pending_raise' = Set(pending_raise, c, st.pending_raise)
    /\ UNCHANGED body_exc

\* Variant: the callbacks are taken from the left (popleft).
PopCallback_fifo(stack) == [cb |-> Head(stack), rest |-> Tail(stack)]

\* self._exit_callbacks.pop(): the most recently pushed callback.
PopCallback(stack) ==
    [cb |-> stack[Len(stack)], rest |-> SubSeq(stack, 1, Len(stack) - 1)]

\* Variant: the truth value of the exit actions is dropped, the body's
\* exception is always re-raised.
AexitResult_ignoresSuppression(body, st) ==
    IF st.pending_raise THEN [how |-> "raised", exc |-> st.exc_details]
    ELSE IF body # NoExc
         THEN [how |-> "raised", exc |-> body]
         ELSE [how |-> "returned", exc |-> NoExc]

\* How process_event ends once no callback is left: __aexit__ raises the
\* pending exception, or tells `async with` whether to swallow the body's.
AexitResult(body, st) ==
    IF st.pending_raise THEN [how |-> "raised", exc |-> st.exc_details]
    ELSE IF body # NoExc /\ ~st.suppressed_exc
         THEN [how |-> "raised", exc |-> body]
         ELSE [how |-> "returned", exc |-> NoExc]

\* The log line of an exit action being called: what it was handed.
ExitEntry(op, c, scope) ==
    [LogEntry(op, c, scope) EXCEPT !.etype = exc_details[c].type,
                                   !.eorig = exc_details[c].origin]

\* The log line of an exit action having ended: how it ended.
ExitedEntry(c, scope, outcome) ==
    [LogEntry("exited", c, scope) EXCEPT !.name = outcome]

\* One turn of the `while self._exit_callbacks` loop with a synchronous
\* callback: __exit__ is called with exc_details and returns or raises.
ExitSync(c) ==
    /\ pc[c] = "aexit"
    /\ exit_callbacks[c] # <<>>
    /\ PopCallback(exit_callbacks[c]).cb.is_sync
    /\ LET top == PopCallback(exit_callbacks[c]).cb
       IN  /\ exit_callbacks' = Set(exit_callbacks, c,
                                    PopCallback(exit_callbacks[c]).rest)
           /\ cb' = Set(cb, c, top)
           /\ \E outcome \in ExitOutcomes :
                 /\ SetExitState(c, AfterExit(ExitState(c), outcome,
                                              Exc("ExitError", top.scope)))
                 /\ trace' = Set(trace, c,
                        Append(Append(trace[c],
                                      ExitEntry("exit", c, top.scope)),
                               ExitedEntry(c, top.scope, outcome)))
    /\ UNCHANGED <<classVars, pc, event, idx, predVars, handlerVars,
                   enter_result, result>>

\* The same turn with an asynchronous callback: __aexit__ is called with
\* exc_details and process_event is suspended in it.
ExitAsyncStart(c) ==
    /\ pc[c] = "aexit"
    /\ exit_callbacks[c] # <<>>
    /\ ~PopCallback(exit_callbacks[c]).cb.is_sync
    /\ LET top == PopCallback(exit_callbacks[c]).cb
       IN  /\ exit_callbacks' = Set(exit_callbacks, c,
                                    PopCallback(exit_callbacks[c]).rest)
           /\ cb' = Set(cb, c, top)
           /\ trace' = Logged(c, ExitEntry("exit", c, top.scope))
    /\ pc' = Set(pc, c, "await_exit")
    /\ UNCHANGED <<classVars, event, idx, predVars, handlerVars, enter_result,
                   exitVars, result>>

\* The awaited __aexit__ of the scope returns or raises.
ExitAsyncDone(c) ==
    /\ pc[c] = "await_exit"
    /\ \E outcome \in ExitOutcomes :
          /\ SetExitState(c, AfterExit(ExitState(c), outcome,
                                       Exc("ExitError", cb[c].scope)))
          /\ trace' = Logged(c, ExitedEntry(c, cb[c].scope, outcome))
    /\ pc' = Set(pc, c, "aexit")
    /\ UNCHANGED <<classVars, event, idx, predVars, handlerVars, enter_result,
                   cb, exit_callbacks, result>>

\* The task is cancelled while suspended in a scope's __aexit__: the callback
\* raises CancelledError, which the bare `except:` of the loop records.
CancelInExit(c) ==
    /\ pc[c] = "await_exit"
    /\ SetExitState(c, AfterExit(ExitState(c), "raise", CancelledError))
    /\ trace' = Logged(c, ExitedEntry(c, cb[c].scope, "cancelled"))
    /\ pc' = Set(pc, c, "aexit")
    /\ UNCHANGED <<classVars, event, idx, predVars, handlerVars, enter_result,
                   cb, exit_callbacks, result>>

\* Variant: the stack is unwound inside the loop (`async with` around one
\* iteration), so that a suppressed error lets the loop take the next
\* declaration.
Finish_resumesAfterSuppression(c) ==
    /\ pc[c] = "aexit"
    /\ exit_callbacks[c] = <<>>
    /\ IF /\ body_exc[c] # NoExc
          /\ AexitResult(body_exc[c], ExitState(c)).how = "returned"
       THEN /\ pc' = Set(pc, c, "for")
            /\ idx' = Set(idx, c, idx[c] + 1)
            /\ UNCHANGED result
       ELSE /\ result' = Set(result, c,
                             AexitResult(body_exc[c], ExitState(c)))
            /\ pc' = Set(pc, c, "done")
            /\ UNCHANGED idx
    /\ UNCHANGED <<classVars, event, predVars, handlerVars, enter_result,
                   cb, exit_callbacks, exitVars, trace>>

\* No callback is left: process_event returns or raises to its caller.
Finish(c) ==
    /\ pc[c] = "aexit"
    /\ exit_callbacks[c] = <<>>
    /\ result' = Set(result, c, AexitResult(body_exc[c], ExitState(c)))
    /\ pc' = Set(pc, c, "done")
    /\ UNCHANGED <<classVars, event, idx, predVars, handlerVars, enter_result,
                   cb, exit_callbacks, exitVars, trace>>

\* ------------------------------------------------------------------------
\* asyncio runs one call at a time and takes up another one only while the
\* others are suspended at an await (line 82, line 84, an asynchronous exit
\* action), not started, or over.
Suspended(c) ==
    pc[c] \in {"idle", "await_coro", "aenter", "await_exit", "done"}

Running(c) == \A d \in Calls \ {c} : Suspended(d)

Next ==
    \/ DefineClass
    \/ \E c \in Calls : Running(c) /\ Start(c)
    \/ \E c \in Calls : Running(c) /\ ForNext(c)
    \/ \E c \in Calls : Running(c) /\ CallPredicate(c)
    \/ \E c \in Calls : Running(c) /\ InvokeHandler(c)
    \/ \E c \in Calls : Running(c) /\ AwaitCoroutine(c)
    \/ \E c \in Calls : Running(c) /\ EnterContext(c)
    \/ \E c \in Calls : Running(c) /\ EnterAsyncContext(c)
    \/ \E c \in Calls : Running(c) /\ CancelInBody(c)
    \/ \E c \in Calls : Running(c) /\ ExitSync(c)
    \/ \E c \in Calls : Running(c) /\ ExitAsyncStart(c)
    \/ \E c \in Calls : Running(c) /\ ExitAsyncDone(c)
    \/ \E c \in Calls : Running(c) /\ CancelInExit(c)
    \/ \E c \in Calls : Running(c) /\ Finish(c)

Spec == Init /\ [][Next]_vars

\* ------------------------------------------------------------------------
\* Reading the call log.

\* The log lines of call c, in order.
TraceOf(c) == trace[c]

\* Log lines written by the handler loop (lines 73-90).
LoopOps == {"pred", "call", "ret", "entered"}

InLoop(c) ==
    pc[c] \in {"for", "preds", "call", "await_coro", "enter", "aenter"}

LoopOver(c) == pc[c] \in {"aexit", "await_exit", "done"}

\* Positions of the lines of kind op about declaration i.
At(T, op, i) == {n \in DOMAIN T : T[n].op = op /\ T[n].i = i}

IsPred(e, i, k, j) == e.op = "pred" /\ e.i = i /\ e.k = k /\ e.j = j

\* The scopes on the stack of call c, oldest first.
OpenScopes(c) ==
    [n \in DOMAIN exit_callbacks[c] |-> exit_callbacks[c][n].scope]

\* The scopes call c entered, in order of entry.
EnteredScopes(c) ==
    LET E == SelectSeq(TraceOf(c), LAMBDA e : e.op = "entered")
    IN  [n \in DOMAIN E |-> E[n].i]

\* ------------------------------------------------------------------------
\* C1: every scope a process_event call entered has had its exit action
\* called exactly once (and ended once) by the time the call returns or
\* raises, and never more than once before; this on every path out of the
\* loop, cancellation included.
C1_EnteredScopesExitedOnce ==
    \A c \in Calls :
        LET T == TraceOf(c)
        IN  \A n \in DOMAIN T :
                T[n].op = "entered" =>
                    /\ Cardinality(At(T, "exit", T[n].i)) <= 1
                    /\ Cardinality(At(T, "exited", T[n].i)) <= 1
                    /\ pc[c] = "done" =>
                          /\ Cardinality(At(T, "exit", T[n].i)) = 1
                          /\ Cardinality(At(T, "exited", T[n].i)) = 1

\* Two scopes were entered, the loop ended normally, the task was cancelled
\* inside an exit action, and process_event raised CancelledError.
C1_Witness ==
    \E c \in Calls :
        /\ pc[c] = "done"
        /\ Len(EnteredScopes(c)) = 2
        /\ body_exc[c] = NoExc
        /\ result[c] = [how |-> "raised", exc |-> CancelledError]

\* C2: scopes are exited in reverse order of entry: when the exit action of
\* a scope starts, the exit action of every scope entered after it has
\* already ended.
C2_ExitInReverseOrder ==
    \A c \in Calls :
        LET T == TraceOf(c)
        IN  \A a \in DOMAIN T, b \in DOMAIN T :
                (a < b /\ T[a].op = "entered" /\ T[b].op = "entered") =>
                    \A x \in At(T, "exit", T[a].i) :
                        \E y \in At(T, "exited", T[b].i) : y < x

\* Two scopes were entered, the exit action of the second one raised, the
\* first one was exited after it all the same, and process_event raised the
\* exit error.
C2_Witness ==
    \E c \in Calls :
        LET T == TraceOf(c)
        IN  /\ pc[c] = "done"
            /\ EnteredScopes(c) = <<1, 2>>
            /\ result[c] = [how |-> "raised", exc |-> Exc("ExitError", 2)]
            /\ \E y \in At(T, "exited", 2) :
                  \E x \in At(T, "exit", 1) :
                      y < x /\ T[x].etype = "ExitError"

\* C3: declarations are visited in registry order, which is the order of the
\* class body, one at a time: the log never goes back to an earlier
\* declaration, never passes one over, never invokes a method or calls a
\* predicate twice, and touches declaration i+1 only after the handler of
\* declaration i, if invoked, has returned, resolved or been entered.
C3_VisitedInOrderOneAtATime ==
    \A c \in Calls :
        LET T == TraceOf(c)
            L == {n \in DOMAIN T : T[n].op \in LoopOps}
            Calls_ == {n \in DOMAIN T : T[n].op = "call"}
            Completed(m, n) ==
                \E x \in L : /\ m < x /\ x < n
                             /\ T[x].op \in {"ret", "entered"}
                             /\ T[x].i = T[m].i
        IN  /\ \A m \in L, n \in L : m < n => T[m].i <= T[n].i
            /\ \A n \in L :
                  T[n].i > 1 => \E m \in L : m < n /\ T[m].i = T[n].i - 1
            /\ \A m \in Calls_, n \in Calls_ :
                  /\ m # n => T[m].i # T[n].i
                  /\ m < n => T[m].j < T[n].j
            /\ \A n \in Calls_ :
                  /\ T[n].i \in DOMAIN handlers
                  /\ T[n].j = handlers[T[n].i].handler_method
            /\ \A m \in L, n \in L :
                  (m # n /\ T[m].op = "pred" /\ T[n].op = "pred") =>
                      <<T[m].i, T[m].k, T[m].j>> # <<T[n].i, T[n].k, T[n].j>>
            /\ \A m \in Calls_, n \in L :
                  (m < n /\ T[m].i < T[n].i) => Completed(m, n)

\* Both declarations of a two-handler registry were invoked, the first one
\* having returned before the second was called.
C3_Witness ==
    \E c \in Calls :
        LET T == TraceOf(c)
        IN  /\ pc[c] = "done"
            /\ Len(handlers) = 2
            /\ At(T, "call", 1) # {} /\ At(T, "ret", 1) # {}
            /\ At(T, "call", 2) # {}

\* C4: once a handler's result, returned or resolved from its coroutine, is
\* False or None, the loop is over: the log ends (as far as the loop goes)
\* with that handler's return, and no later declaration is evaluated or
\* invoked for the rest of the call.
C4_FalsyResultStopsDispatch ==
    \A c \in Calls :
        call_next_handlers[c] \in {"False", "None"} =>
            LET T == TraceOf(c)
                L == {n \in DOMAIN T : T[n].op \in LoopOps}
            IN  /\ LoopOver(c)
                /\ \E n \in L : /\ T[n].op = "ret"
                                /\ T[n].i = idx[c]
                                /\ \A m \in L : m <= n

\* An async handler resolved to None in front of a later declaration, which
\* was never visited, and process_event has returned.
C4_Witness ==
    \E c \in Calls :
        /\ pc[c] = "done"
        /\ call_next_handlers[c] = "None"
        /\ ret_val[c] = "coroutine"
        /\ idx[c] < Len(handlers)

\* C5: right after a handler's result, returned or resolved, was a truthy
\* value (True or a non-empty string), the loop is at the next declaration
\* of the registry (or has ended because there is none).
C5_TruthyResultContinues ==
    \A c \in Calls :
        LET T == TraceOf(c)
        IN  (/\ T # <<>>
             /\ T[Len(T)].op = "ret"
             /\ call_next_handlers[c] \in {"True", "abc"}) =>
                \/ /\ pc[c] \in {"for", "preds", "call"}
                   /\ idx[c] = T[Len(T)].i + 1
                   /\ idx[c] <= Len(handlers) \/ pc[c] = "for"
                \/ /\ T[Len(T)].i = Len(handlers)
                   /\ idx[c] = Len(handlers) + 1
                   /\ LoopOver(c)

\* An async handler resolved to "abc" and the method of the next
\* declaration is about to be called.
C5_Witness ==
    \E c \in Calls :
        /\ pc[c] = "call"
        /\ idx[c] = 2
        /\ call_next_handlers[c] = "abc"
        /\ ret_val[c] = "coroutine"

\* C6: right after a scope was entered it is on top of the stack and the
\* loop is at the next declaration (or has ended because there is none),
\* whatever the entry action returned.
C6_ScopeNeverStopsDispatch ==
    \A c \in Calls :
        LET T == TraceOf(c)
        IN  (T # <<>> /\ T[Len(T)].op = "entered") =>
                /\ exit_callbacks[c] # <<>>
                /\ exit_callbacks[c][Len(exit_callbacks[c])].scope
                      = T[Len(T)].i
                /\ \/ /\ pc[c] \in {"for", "preds", "call"}
                      /\ idx[c] = T[Len(T)].i + 1
                      /\ idx[c] <= Len(handlers) \/ pc[c] = "for"
                   \/ /\ T[Len(T)].i = Len(handlers)
                      /\ idx[c] = Len(handlers) + 1
                      /\ LoopOver(c)

\* The entry action of the scope of declaration 1 returned False and the
\* method of declaration 2 was called all the same.
C6_Witness ==
    \E c \in Calls :
        /\ enter_result[c] = "False"
        /\ EnteredScopes(c) = <<1>>
        /\ At(TraceOf(c), "call", 2) # {}

\* ------------------------------------------------------------------------
\* Matching, as the data model defines it: some AND-clause has all its
\* predicates true on the event.
Matches(or_list, e) ==
    \E k \in DOMAIN or_list :
        \A j \in DOMAIN or_list[k] : PredOutcome(or_list[k][j], e) = "true"

Conditional(i) == handlers[i].or_predicates.kind = "list"

Invoked(c, i) == At(TraceOf(c), "call", i) # {}

\* The predicate group of declaration i was evaluated to its end by call c.
Evaluated(c, i) ==
    /\ \E n \in DOMAIN TraceOf(c) :
          TraceOf(c)[n].op = "pred" /\ TraceOf(c)[n].i = i
    /\ ~(idx[c] = i /\ pc[c] = "preds")

GroupRaised(c, i) ==
    \E n \in DOMAIN TraceOf(c) :
        /\ TraceOf(c)[n].op = "pred"
        /\ TraceOf(c)[n].i = i
        /\ TraceOf(c)[n].etype = "raise"

\* C7 as stated: at the end of a dispatch in which nothing raised, every
\* conditional handler was invoked if and only if its group matches the
\* event.
C7_InvokedIffMatches_AsStated ==
    \A c \in Calls :
        (pc[c] = "done" /\ body_exc[c] = NoExc) =>
            \A i \in DOMAIN handlers :
                Conditional(i) =>
                    (Invoked(c, i) <=>
                        Matches(handlers[i].or_predicates.list, event[c]))

\* C7, amended: for a conditional declaration the dispatch has reached and
\* whose group was evaluated without a predicate raising, the method is
\* invoked (next, or already) iff the group matches; when it does not match
\* the method is not invoked, no scope is entered for it, and the loop has
\* gone on to the next declaration.
C7_InvokedIffMatchesWhenReached ==
    \A c \in Calls :
        \A i \in DOMAIN handlers :
            Conditional(i) =>
                LET G == handlers[i].or_predicates.list
                    T == TraceOf(c)
                IN  /\ Invoked(c, i) => Evaluated(c, i) /\ Matches(G, event[c])
                    /\ (/\ Evaluated(c, i)
                        /\ ~GroupRaised(c, i)
                        /\ Matches(G, event[c])) =>
                           \/ Invoked(c, i)
                           \/ pc[c] = "call" /\ idx[c] = i
                    /\ (/\ Evaluated(c, i)
                        /\ ~GroupRaised(c, i)
                        /\ ~Matches(G, event[c])) =>
                           /\ ~Invoked(c, i)
                           /\ At(T, "entered", i) = {}
                           /\ At(T, "ret", i) = {}
                           /\ idx[c] > i

\* A conditional handler was invoked for an event its group matches, and
\* another conditional handler before it was skipped for that same event.
C7_Witness ==
    \E c \in Calls :
        /\ pc[c] = "done"
        /\ Len(handlers) = 2
        /\ Conditional(1) /\ Conditional(2)
        /\ ~Matches(handlers[1].or_predicates.list, event[c])
        /\ Evaluated(c, 1) /\ ~Invoked(c, 1)
        /\ Matches(handlers[2].or_predicates.list, event[c])
        /\ Invoked(c, 2)

\* C8: inside one AND-clause the predicates are called from left to right,
\* each with the event of the call, each at most once, never after one of
\* the clause returned false (or raised); after a true answer the next
\* predicate of the clause is the next thing called.
C8_ClauseLeftToRightShortCircuit ==
    \A c \in Calls :
        LET T == TraceOf(c)
        IN  \A n \in DOMAIN T :
                T[n].op = "pred" =>
                    LET i == T[n].i
                        k == T[n].k
                        j == T[n].j
                        and_predicates == handlers[i].or_predicates.list[k]
                    IN  /\ j \in DOMAIN and_predicates
                        /\ T[n].name = and_predicates[j]
                        /\ T[n].arg = event[c]
                        /\ \A m \in DOMAIN T :
                              (m # n /\ T[m].op = "pred") =>
                                  <<T[m].i, T[m].k, T[m].j>> # <<i, k, j>>
                        /\ j > 1 =>
                              /\ n > 1
                              /\ IsPred(T[n - 1], i, k, j - 1)
                              /\ T[n - 1].etype = "true"
                        /\ (T[n].etype = "true" /\ j < Len(and_predicates)) =>
                              IF n = Len(T)
                              THEN /\ pc[c] = "preds" /\ idx[c] = i
                                   /\ clause[c] = k /\ pred[c] = j + 1
                              ELSE IsPred(T[n + 1], i, k, j + 1)

\* A two-predicate clause had both its predicates called, in order, both
\* true, and another call stopped such a clause at a false first predicate.
C8_Witness ==
    \E c \in Calls :
        LET T == TraceOf(c)
        IN  \E n \in DOMAIN T :
                /\ n > 1
                /\ IsPred(T[n], T[n].i, T[n].k, 2)
                /\ T[n].etype = "true"
                /\ T[n - 1].etype = "true"
                /\ T[n - 1].name # T[n].name
                /\ Invoked(c, T[n].i)

\* C9: the AND-clauses of a handler are evaluated in the order its
\* decorators are written, top to bottom: the k-th clause evaluated is the
\* k-th decorator from the top; a clause is started only right after the
\* clause above it failed; after the first clause that matches the method is
\* called at once; after a clause that fails the next one below, if any, is
\* evaluated, so that every clause is evaluated once when none matches.
C9_ClausesTopToBottomShortCircuit ==
    \A c \in Calls :
        LET T == TraceOf(c)
        IN  \A n \in DOMAIN T :
                T[n].op = "pred" =>
                    LET i == T[n].i
                        k == T[n].k
                        j == T[n].j
                        decorators == source[handlers[i].handler_method]
                    IN  /\ k \in DOMAIN decorators
                        /\ j \in DOMAIN decorators[k]
                        /\ T[n].name = decorators[k][j]
                        /\ \A m \in DOMAIN T :
                              (m # n /\ T[m].op = "pred") =>
                                  <<T[m].i, T[m].k, T[m].j>> # <<i, k, j>>
                        /\ (j = 1 /\ k = 1) => (n = 1 \/ T[n - 1].i # i)
                        /\ (j = 1 /\ k > 1) =>
                              /\ n > 1
                              /\ T[n - 1].op = "pred"
                              /\ T[n - 1].i = i
                              /\ T[n - 1].k = k - 1
                              /\ T[n - 1].etype = "false"
                        /\ (T[n].etype = "true" /\ j = Len(decorators[k])) =>
                              IF n = Len(T)
                              THEN pc[c] = "call" /\ idx[c] = i
                              ELSE T[n + 1].op = "call" /\ T[n + 1].i = i
                        /\ (T[n].etype = "false" /\ k < Len(decorators)) =>
                              IF n = Len(T)
                              THEN /\ pc[c] = "preds" /\ idx[c] = i
                                   /\ clause[c] = k + 1 /\ pred[c] = 1
                              ELSE IsPred(T[n + 1], i, k + 1, 1)
                        /\ (T[n].etype = "false" /\ k = Len(decorators)) =>
                              /\ ~Invoked(c, i)
                              /\ \A kk \in DOMAIN decorators :
                                    Cardinality({m \in DOMAIN T :
                                        IsPred(T[m], i, kk, 1)}) = 1

\* A handler with two stacked decorators, @handler(a) over @handler(b): a
\* was called first and was false, b was called next and was true, and the
\* method was invoked.
C9_Witness ==
    \E c \in Calls :
        LET T == TraceOf(c)
        IN  /\ Len(T) >= 3
            /\ source[handlers[1].handler_method] = << <<"a">>, <<"b">> >>
            /\ IsPred(T[1], 1, 1, 1) /\ T[1].name = "a"
            /\ T[1].etype = "false"
            /\ IsPred(T[2], 1, 2, 1) /\ T[2].name = "b"
            /\ T[2].etype = "true"
            /\ T[3].op = "call" /\ T[3].i = 1

\* C10: while the handler loop of a call runs, every scope it entered is
\* still on the stack and no exit action has started; in the log every exit
\* comes after everything the loop did.
C10_ScopesOpenDuringLoop ==
    \A c \in Calls :
        LET T == TraceOf(c)
        IN  /\ InLoop(c) =>
                  /\ OpenScopes(c) = EnteredScopes(c)
                  /\ \A n \in DOMAIN T : T[n].op \notin {"exit", "exited"}
            /\ \A n \in DOMAIN T, m \in DOMAIN T :
                  (T[n].op = "exit" /\ T[m].op \in LoopOps) => m < n

\* The scope of declaration 1 was entered, the handler of declaration 2 ran
\* inside it, and the scope was exited afterwards.
C10_Witness ==
    \E c \in Calls :
        LET T == TraceOf(c)
        IN  /\ pc[c] = "done"
            /\ EnteredScopes(c) = <<1>>
            /\ \E m \in At(T, "call", 2) : \E x \in At(T, "exit", 1) : m < x

\* ------------------------------------------------------------------------
\* Reading the unwind in the call log.

\* The exit actions call c has called, in order, with what each was handed.
Exits(c) == SelectSeq(TraceOf(c), LAMBDA e : e.op = "exit")

\* The exit actions of call c that have ended, in order, with how each ended.
Exiteds(c) == SelectSeq(TraceOf(c), LAMBDA e : e.op = "exited")

ExitRaised(e) == e.name \in {"raise", "cancelled"}

\* The body of call c ended with an error of that type while a scope was
\* entered, and process_event is over.
FailedInScopes(c, type) ==
    /\ pc[c] = "done"
    /\ body_exc[c].type = type
    /\ EnteredScopes(c) # <<>>

\* The exit action called first is the one of the scope entered last, and it
\* is handed the error the body ended with.
InnermostExitObservesBodyError(c) ==
    /\ Exits(c) # <<>>
    /\ Exits(c)[1].i = EnteredScopes(c)[Len(EnteredScopes(c))]
    /\ Exits(c)[1].etype = body_exc[c].type
    /\ Exits(c)[1].eorig = body_exc[c].origin

\* Positions in the unwind where an exit action was handed the error the
\* body ended with and returned a true value.
SuppressionsOfBodyError(c) ==
    {n \in DOMAIN Exiteds(c) :
        /\ Exits(c)[n].etype = body_exc[c].type
        /\ Exits(c)[n].eorig = body_exc[c].origin
        /\ Exiteds(c)[n].name = "truthy"}

EveryScopeExitedOnce(c) ==
    \A n \in DOMAIN EnteredScopes(c) :
        Cardinality(At(TraceOf(c), "exit", EnteredScopes(c)[n])) = 1

\* C11 as stated: a handler raised inside at least one scope; the innermost
\* exit observes the error; if some exit suppresses it process_event returns
\* normally with every exit run once; if none does, process_event raises
\* that very error.
C11_HandlerErrorObservedSuppressedOrRaised_AsStated ==
    \A c \in Calls :
        FailedInScopes(c, "HandlerError") =>
            /\ InnermostExitObservesBodyError(c)
            /\ SuppressionsOfBodyError(c) # {} =>
                  /\ result[c].how = "returned"
                  /\ EveryScopeExitedOnce(c)
            /\ SuppressionsOfBodyError(c) = {} =>
                  result[c] = [how |-> "raised", exc |-> body_exc[c]]

\* C11, amended: the same, as long as exit actions do not raise themselves:
\* after a suppression process_event returns normally provided no exit
\* action called after the suppressing one raises, and without a suppression
\* the handler's error is the one raised provided no exit action raises.
C11_HandlerErrorObservedSuppressedOrRaised ==
    \A c \in Calls :
        FailedInScopes(c, "HandlerError") =>
            /\ InnermostExitObservesBodyError(c)
            /\ EveryScopeExitedOnce(c)
            /\ \A n \in SuppressionsOfBodyError(c) :
                  (\A m \in DOMAIN Exiteds(c) :
                      m > n => ~ExitRaised(Exiteds(c)[m])) =>
                          result[c].how = "returned"
            /\ (/\ SuppressionsOfBodyError(c) = {}
                /\ \A m \in DOMAIN Exiteds(c) : ~ExitRaised(Exiteds(c)[m])) =>
                      result[c] = [how |-> "raised", exc |-> body_exc[c]]

\* The handler of declaration 2 raised inside the scope of declaration 1,
\* whose exit action was handed the error and suppressed it; process_event
\* returned normally.
C11_Witness ==
    \E c \in Calls :
        /\ FailedInScopes(c, "HandlerError")
        /\ body_exc[c].origin = 2
        /\ EnteredScopes(c) = <<1>>
        /\ SuppressionsOfBodyError(c) = {1}
        /\ result[c].how = "returned"

\* ------------------------------------------------------------------------
Unconditional(i) == handlers[i].or_predicates.kind = "none"

\* How many times call c invoked the method of declaration i.
Invocations(c, i) == Cardinality(At(TraceOf(c), "call", i))

\* The loop of call c has taken declaration i and gone past its predicates.
ReachedCall(c, i) ==
    \/ idx[c] > i
    \/ idx[c] = i /\ pc[c] \notin {"for", "preds", "call"}

\* C12 as stated: at the end of every process_event call (read here for the
\* calls in which nothing raised) every unconditional handler of the
\* registry has been invoked exactly once, whatever stands before it.
C12_UnconditionalInvokedOnce_AsStated ==
    \A c \in Calls :
        (pc[c] = "done" /\ body_exc[c] = NoExc) =>
            \A i \in DOMAIN handlers :
                Unconditional(i) => Invocations(c, i) = 1

\* C12, amended: an unconditional handler is invoked at most once per call,
\* without any predicate being called for it, and exactly once as soon as
\* the loop reaches its declaration; it is not invoked when an earlier
\* declaration stopped or aborted the dispatch.
C12_UnconditionalInvokedOnceWhenReached ==
    \A c \in Calls :
        \A i \in DOMAIN handlers :
            Unconditional(i) =>
                /\ Invocations(c, i) <= 1
                /\ At(TraceOf(c), "pred", i) = {}
                /\ ReachedCall(c, i) <=> Invocations(c, i) = 1
                /\ (LoopOver(c) /\ idx[c] < i) => Invocations(c, i) = 0

\* An unconditional handler in second position was invoked once, after a
\* first handler that returned a truthy value, and process_event is over.
C12_Witness ==
    \E c \in Calls :
        /\ pc[c] = "done"
        /\ Len(handlers) = 2
        /\ Unconditional(2)
        /\ At(TraceOf(c), "ret", 1) # {}
        /\ Invocations(c, 2) = 1

\* ------------------------------------------------------------------------
\* The error an exit action that raised handed on to the rest of the unwind.
RaisedBy(e) ==
    IF e.name = "cancelled" THEN CancelledError ELSE Exc("ExitError", e.i)

\* C13 as stated: when process_event is over and some exit action raised,
\* every entered scope has been exited and process_event raised.
C13_ExitErrorSurfaces_AsStated ==
    \A c \in Calls :
        (/\ pc[c] = "done"
         /\ \E n \in DOMAIN Exiteds(c) : ExitRaised(Exiteds(c)[n])) =>
            /\ EveryScopeExitedOnce(c)
            /\ result[c].how = "raised"

\* C13, amended: when an exit action raises, the unwind goes on: the scope
\* entered just before is exited next and is handed the error raised, every
\* entered scope is exited once by the end, and process_event raises unless
\* the exit action of an earlier-entered scope, called afterwards, returns a
\* true value.
C13_ExitErrorSurfacesUnlessSuppressed ==
    \A c \in Calls :
        \A n \in DOMAIN Exiteds(c) :
            ExitRaised(Exiteds(c)[n]) =>
                /\ n < Len(Exits(c)) =>
                      /\ Exits(c)[n + 1].etype = RaisedBy(Exiteds(c)[n]).type
                      /\ Exits(c)[n + 1].eorig = RaisedBy(Exiteds(c)[n]).origin
                /\ (n = Len(Exits(c)) /\ exit_callbacks[c] # <<>>) =>
                      /\ pc[c] = "aexit"
                      /\ exc_details[c] = RaisedBy(Exiteds(c)[n])
                /\ pc[c] = "done" =>
                      /\ EveryScopeExitedOnce(c)
                      /\ (\A m \in DOMAIN Exiteds(c) :
                             m > n => Exiteds(c)[m].name # "truthy") =>
                                result[c].how = "raised"

\* After a loop that ended normally the exit action of scope 2 raised, the
\* one of scope 1 was handed that error and raised too, and process_event
\* raised the error of scope 1.
C13_Witness ==
    \E c \in Calls :
        /\ pc[c] = "done"
        /\ body_exc[c] = NoExc
        /\ EnteredScopes(c) = <<1, 2>>
        /\ Exiteds(c)[1].name = "raise"
        /\ Exits(c)[2].etype = "ExitError" /\ Exits(c)[2].eorig = 2
        /\ Exiteds(c)[2].name = "raise"
        /\ result[c] = [how |-> "raised", exc |-> Exc("ExitError", 1)]

\* ------------------------------------------------------------------------
\* Positions in the unwind of call c where an exit action raised, and where
\* one returned a true value.
RaisingExits(c) == {n \in DOMAIN Exiteds(c) : ExitRaised(Exiteds(c)[n])}

SuppressingExits(c) == {n \in DOMAIN Exiteds(c) : Exiteds(c)[n].name = "truthy"}

Max(S) == CHOOSE x \in S : \A y \in S : y <= x

\* The failures of the dispatch of call c in order of occurrence: the error
\* the body ended with, if any, then the errors raised by exit actions.
Failures(c) ==
    LET R == SelectSeq(Exiteds(c), ExitRaised)
    IN  (IF body_exc[c] = NoExc THEN <<>> ELSE <<body_exc[c]>>)
        \o [n \in DOMAIN R |-> RaisedBy(R[n])]

\* C14 as stated: a call in which failures occurred and no exit action
\* recovered anything (none returned a true value) raises the first of its
\* failures.
C14_FirstFailureRaised_AsStated ==
    \A c \in Calls :
        (/\ pc[c] = "done"
         /\ Failures(c) # <<>>
         /\ SuppressingExits(c) = {}) =>
            result[c] = [how |-> "raised", exc |-> Failures(c)[1]]

\* C14, amended: process_event returns or raises one error, and that error
\* is the last failure not recovered: the error of the last exit action
\* that raised, unless an exit action called after it returned a true value;
\* the error of the body when no exit action raised and none returned a true
\* value; in every other case process_event returns normally.
C14_LastUnrecoveredFailureRaised ==
    \A c \in Calls :
        pc[c] = "done" =>
            /\ result[c].how \in {"returned", "raised"}
            /\ result[c].how = "returned" <=> result[c].exc = NoExc
            /\ IF /\ RaisingExits(c) # {}
                  /\ \A m \in SuppressingExits(c) : m < Max(RaisingExits(c))
               THEN result[c] =
                      [how |-> "raised",
                       exc |-> RaisedBy(Exiteds(c)[Max(RaisingExits(c))])]
               ELSE IF /\ RaisingExits(c) = {}
                       /\ SuppressingExits(c) = {}
                       /\ body_exc[c] # NoExc
                    THEN result[c] = [how |-> "raised", exc |-> body_exc[c]]
                    ELSE result[c] = [how |-> "returned", exc |-> NoExc]

\* A predicate of declaration 2 raised inside the scope of declaration 1,
\* whose exit action was handed that error and raised its own: two failures,
\* and process_event raised the second.
C14_Witness ==
    \E c \in Calls :
        /\ pc[c] = "done"
        /\ Len(Failures(c)) = 2
        /\ Failures(c)[1] = Exc("PredicateError", 2)
        /\ Exits(c)[1].etype = "PredicateError"
        /\ SuppressingExits(c) = {}
        /\ result[c] = [how |-> "raised", exc |-> Failures(c)[2]]

\* ------------------------------------------------------------------------
\* The last thing the handler loop of call c did, as a position of its log
\* (0 when it did nothing).
LastLoopLine(c) ==
    LET L == {n \in DOMAIN TraceOf(c) : TraceOf(c)[n].op \in LoopOps}
    IN  IF L = {} THEN 0 ELSE Max(L)

\* A predicate raised during call c.
PredicateRaised(c) ==
    \E n \in DOMAIN TraceOf(c) :
        TraceOf(c)[n].op = "pred" /\ TraceOf(c)[n].etype = "raise"

\* What every predicate error does to the loop: the raising call is the last
\* thing the loop did, the loop is over, the error is what the body of the
\* `async with` ended with, and it is handed to the first exit action.
PredicateErrorAborts(c) ==
    LET T == TraceOf(c)
        n == LastLoopLine(c)
    IN  /\ LoopOver(c)
        /\ T[n].op = "pred" /\ T[n].etype = "raise"
        /\ body_exc[c] = Exc("PredicateError", T[n].i)
        /\ ~Invoked(c, T[n].i)
        /\ Exits(c) # <<>> => InnermostExitObservesBodyError(c)
        /\ pc[c] = "done" => EveryScopeExitedOnce(c)

\* C15 as stated: a predicate error aborts the dispatch, the entered scopes
\* are unwound, and process_event raises the predicate's error.
C15_PredicateErrorPropagates_AsStated ==
    \A c \in Calls :
        PredicateRaised(c) =>
            /\ PredicateErrorAborts(c)
            /\ pc[c] = "done" =>
                  result[c] = [how |-> "raised", exc |-> body_exc[c]]

\* C15, amended: a predicate error aborts the dispatch and the entered
\* scopes are unwound, the first exit action being handed the error;
\* process_event raises the predicate's error unless an exit action returned
\* a true value or raised an error of its own.
C15_PredicateErrorPropagatesUnlessExitIntervenes ==
    \A c \in Calls :
        PredicateRaised(c) =>
            /\ PredicateErrorAborts(c)
            /\ (/\ pc[c] = "done"
                /\ SuppressingExits(c) = {}
                /\ RaisingExits(c) = {}) =>
                  result[c] = [how |-> "raised", exc |-> body_exc[c]]

\* Predicate r of declaration 2 raised inside the scope of declaration 1;
\* the scope was exited, its exit action returning a false value, and
\* process_event raised the predicate's error.
C15_Witness ==
    \E c \in Calls :
        /\ pc[c] = "done"
        /\ PredicateRaised(c)
        /\ EnteredScopes(c) = <<1>>
        /\ Exiteds(c)[1].name = "falsy"
        /\ result[c] = [how |-> "raised", exc |-> Exc("PredicateError", 2)]

\* ------------------------------------------------------------------------
\* The scopes call c has exited so far, in order of exit.
ExitedScopes(c) == [n \in DOMAIN Exits(c) |-> Exits(c)[n].i]

\* What every failed scope entry does: the loop is over and did nothing
\* after calling the method that returned the scope, the scope is neither
\* entered nor ever exited, the error is handed to the first exit action,
\* and by the end the scopes entered before are exited in reverse order.
EntryErrorAborts(c) ==
    LET T == TraceOf(c)
        n == LastLoopLine(c)
        i == body_exc[c].origin
        E == EnteredScopes(c)
    IN  /\ LoopOver(c)
        /\ idx[c] = i
        /\ T[n].op = "call" /\ T[n].i = i
        /\ ret_val[c] \in {"sync_cm", "async_cm"}
        /\ At(T, "entered", i) = {}
        /\ At(T, "exit", i) = {} /\ At(T, "exited", i) = {}
        /\ \A s \in DOMAIN exit_callbacks[c] : exit_callbacks[c][s].scope # i
        /\ Exits(c) # <<>> => InnermostExitObservesBodyError(c)
        /\ pc[c] = "done" =>
              ExitedScopes(c) = [m \in DOMAIN E |-> E[Len(E) + 1 - m]]

\* C16 as stated: a failed entry aborts the dispatch, the failed scope is
\* not exited, the earlier scopes are exited in reverse order, and
\* process_event raises the entry's error unless an exit action suppressed
\* it.
C16_EntryErrorPropagates_AsStated ==
    \A c \in Calls :
        body_exc[c].type = "EnterError" =>
            /\ EntryErrorAborts(c)
            /\ (pc[c] = "done" /\ SuppressingExits(c) = {}) =>
                  result[c] = [how |-> "raised", exc |-> body_exc[c]]

\* C16, amended: the same, the entry's error being the one raised unless an
\* exit action of an earlier scope suppressed it or raised an error of its
\* own.
C16_EntryErrorPropagatesUnlessExitIntervenes ==
    \A c \in Calls :
        body_exc[c].type = "EnterError" =>
            /\ EntryErrorAborts(c)
            /\ (/\ pc[c] = "done"
                /\ SuppressingExits(c) = {}
                /\ RaisingExits(c) = {}) =>
                  result[c] = [how |-> "raised", exc |-> body_exc[c]]

\* The scope of declaration 1 was entered, the entry action of the scope of
\* declaration 2 raised, scope 1 alone was exited, being handed the entry's
\* error, and process_event raised that error.
C16_Witness ==
    \E c \in Calls :
        /\ pc[c] = "done"
        /\ body_exc[c] = Exc("EnterError", 2)
        /\ ExitedScopes(c) = <<1>>
        /\ Exits(c)[1].etype = "EnterError"
        /\ Exiteds(c)[1].name = "falsy"
        /\ result[c] = [how |-> "raised", exc |-> Exc("EnterError", 2)]

\* ------------------------------------------------------------------------
\* A decorator stack that carries handler() together with another
\* annotation, in any order.
MixesUnconditional(annots) ==
    /\ Len(annots) >= 2
    /\ \E n \in DOMAIN annots : annots[n] = <<>>

HandlerOverConditional == << <<>>, <<"a">> >>
ConditionalOverHandler == << <<"a">>, <<>> >>
HandlerTwice == << <<>>, <<>> >>

\* C17: once the class statement of a body with such a method has run, it
\* has failed: no registry was built, and no process_event call can ever be
\* made on the type; the three stacking orders are all among the bodies
\* tried. A body without such a method defines its type.
C17_MixedAnnotationsFailClassDefinition ==
    /\ {HandlerOverConditional, ConditionalOverHandler, HandlerTwice}
          \subseteq {s \in AnnotationStacks : MixesUnconditional(s)}
    /\ classState # "defining" =>
          IF \E k \in DOMAIN source : MixesUnconditional(source[k])
          THEN /\ classState = "failed"
               /\ handlers = <<>>
               /\ \A c \in Calls : pc[c] = "idle" /\ trace[c] = <<>>
          ELSE classState = "defined"

\* A body whose first method is a valid conditional handler and whose
\* second method stacks a conditional annotation over handler() has failed
\* at class definition.
C17_Witness ==
    /\ classState = "failed"
    /\ Len(source) = 2
    /\ source[1] = << <<"a">>, <<"b">> >>
    /\ source[2] = ConditionalOverHandler
    /\ handlers = <<>>

\* ------------------------------------------------------------------------
\* Dispatch on types with one more declaration than MaxHandlers:
\* MaxHandlers unconditional handlers and a last handler, unconditional or
\* conditional. Room for a scope, a declaration that fails inside it, and a
\* declaration after the failing one.
LongBodies ==
    {[k \in 1..MaxHandlers |-> << <<>> >>] \o <<last>> :
        last \in { << <<>> >>, << <<"a">>, <<"b">> >> }}

InitLong ==
    /\ source \in LongBodies
    /\ names = DistinctNames(Len(source))
    /\ classState = "defining"
    /\ handlers = <<>>
    /\ base = NoBase
    /\ InitCalls({1})

SpecLong == InitLong /\ [][Next]_vars

\* Declaration i of call c failed: one of its predicates raised, or its
\* method was invoked and neither returned, resolved nor was entered, and is
\* not still being awaited or entered.
FailedAt(c, i) ==
    \/ GroupRaised(c, i)
    \/ /\ Invoked(c, i)
       /\ At(TraceOf(c), "ret", i) = {}
       /\ At(TraceOf(c), "entered", i) = {}
       /\ ~(idx[c] = i /\ pc[c] \in {"await_coro", "enter", "aenter"})

\* C19: once declaration i of a call failed, the handler loop of that call
\* is over for good: the log holds nothing of a later declaration, the loop
\* stays at i, and this also after an exit action suppressed the error and
\* process_event returned normally.
C19_NoDeclarationVisitedAfterFailure ==
    \A c \in Calls :
        LET T == TraceOf(c)
        IN  \A i \in DOMAIN handlers :
                FailedAt(c, i) =>
                    /\ LoopOver(c)
                    /\ idx[c] = i
                    /\ body_exc[c] # NoExc
                    /\ \A n \in DOMAIN T :
                          T[n].op \in LoopOps => T[n].i <= i
                    /\ T[LastLoopLine(c)].i = i

\* The handler of declaration 2 raised inside the scope of declaration 1,
\* whose exit action suppressed the error; process_event returned normally
\* and declaration 3 was never visited.
C19_Witness ==
    \E c \in Calls :
        /\ pc[c] = "done"
        /\ Len(handlers) >= 3
        /\ body_exc[c] = Exc("HandlerError", 2)
        /\ EnteredScopes(c) = <<1>>
        /\ SuppressionsOfBodyError(c) = {1}
        /\ result[c].how = "returned"
        /\ ~Invoked(c, 3)
        /\ At(TraceOf(c), "pred", 3) = {}

\* ------------------------------------------------------------------------
\* Two process_event calls in flight on one instance.

\* The type has two unconditional handlers.
ConcurrentBodies == { << << <<>> >>, << <<>> >> >> }

InitConcurrent ==
    /\ source \in ConcurrentBodies
    /\ names = DistinctNames(Len(source))
    /\ classState = "defining"
    /\ handlers = <<>>
    /\ base = NoBase
    /\ InitCalls({1, 2})

\* The handlers of the type are asynchronous: each returns a coroutine, which
\* resolves to True or None or raises, or an asynchronous context manager,
\* whose entry returns True or raises; the two calls are given different
\* events.
AsyncInputs ==
    \A c \in Calls :
        /\ ret_val[c] \in {"unset", "coroutine", "async_cm"}
        /\ call_next_handlers[c] \in {"unset", "True", "None"}
        /\ enter_result[c] \in {"unset", "True"}
        /\ pc[c] # "idle" => event[c] = [a |-> c = 1, b |-> FALSE]

Step(c, A) == Running(c) /\ A /\ AsyncInputs'

NextConcurrent ==
    \/ DefineClass
    \/ \E c \in Calls : Step(c, Start(c))
    \/ \E c \in Calls : Step(c, ForNext(c))
    \/ \E c \in Calls : Step(c, InvokeHandler(c))
    \/ \E c \in Calls : Step(c, AwaitCoroutine(c))
    \/ \E c \in Calls : Step(c, EnterAsyncContext(c))
    \/ \E c \in Calls : Step(c, CancelInBody(c))
    \/ \E c \in Calls : Step(c, ExitAsyncStart(c))
    \/ \E c \in Calls : Step(c, ExitAsyncDone(c))
    \/ \E c \in Calls : Step(c, CancelInExit(c))
    \/ \E c \in Calls : Step(c, Finish(c))

SpecConcurrent == InitConcurrent /\ [][NextConcurrent]_vars

Reverse(s) == [n \in DOMAIN s |-> s[Len(s) + 1 - n]]

\* C18: with two calls interleaving at their awaits, the stack of each call
\* holds exactly the scopes that call entered and has not exited yet, so
\* every scope is exited by the call that entered it and by no other; every
\* line of a call's log is about that call and its own event; each call
\* visits the declarations in order, stops at a false result, keeps its
\* scopes open during its loop and unwinds them in reverse order, as a call
\* alone does; and the registry stays what the class definition built.
C18_EachCallOwnsItsStack ==
    /\ \A c \in Calls :
          /\ OpenScopes(c) \o Reverse(ExitedScopes(c)) = EnteredScopes(c)
          /\ \A n \in DOMAIN TraceOf(c) :
                /\ TraceOf(c)[n].c = c
                /\ TraceOf(c)[n].op = "call" => TraceOf(c)[n].arg = event[c]
          /\ pc[c] = "done" =>
                /\ exit_callbacks[c] = <<>>
                /\ ExitedScopes(c) = Reverse(EnteredScopes(c))
    /\ C3_VisitedInOrderOneAtATime
    /\ C4_FalsyResultStopsDispatch
    /\ C10_ScopesOpenDuringLoop
    /\ C2_ExitInReverseOrder
    /\ classState = "defined" =>
          handlers = init_subclass(ClassDict(source, names, "Base"))

\* Call 1 is suspended in its second handler inside its first scope, still
\* open, while call 2, started in between, has entered two scopes of its own,
\* exited them in reverse order and returned.
C18_Witness ==
    /\ pc[1] = "await_coro"
    /\ OpenScopes(1) = <<1>>
    /\ Exits(1) = <<>>
    /\ pc[2] = "done"
    /\ EnteredScopes(2) = <<1, 2>>
    /\ ExitedScopes(2) = <<2, 1>>
    /\ result[2].how = "returned"

\* ------------------------------------------------------------------------
\* Subclassing a processor type.

\* The decorator stacks of the methods of the two class bodies.
MemberStacks == { <<>>, << <<>> >>, << <<"a">>, <<"b">> >> }

\* The names the statements of a body of n statements may bind: statement k
\* binds a name of its own (k) or binds again the name of an earlier one.
RECURSIVE Namings(_)
Namings(n) ==
    IF n = 0 THEN { <<>> }
    ELSE { Append(nm, x) : nm \in Namings(n - 1), x \in 1..n }

\* Class bodies with their names. A name means the same attribute in Base
\* and in Derived: Derived binding name 1 overrides Base's member 1.
NamedBodies ==
    UNION { { [source |-> src, names |-> nm] : nm \in Namings(Len(src)) } :
            src \in SeqsUpTo(MemberStacks, MaxHandlers) }

InitClasses ==
    /\ \E body \in NamedBodies :
          /\ source = body.source
          /\ names = body.names
    /\ classState = "defining"
    /\ handlers = <<>>
    /\ base = NoBase
    /\ InitCalls({1})

\* The handlers of the two types are plain functions returning True or None
\* and raising nothing; the events dispatched have b unset.
PlainInputs ==
    \A c \in Calls :
        /\ ret_val[c] \in {"unset", "value"}
        /\ call_next_handlers[c] \in {"unset", "True", "None"}
        /\ body_exc[c] = NoExc
        /\ ~event[c].b

NextClasses ==
    \/ DefineClass
    \/ Subclass(NamedBodies)
    \/ \E c \in Calls : Start(c) /\ PlainInputs'
    \/ \E c \in Calls : ForNext(c) /\ PlainInputs'
    \/ \E c \in Calls : CallPredicate(c) /\ PlainInputs'
    \/ \E c \in Calls : InvokeHandler(c) /\ PlainInputs'
    \/ \E c \in Calls : Finish(c) /\ PlainInputs'

SpecClasses == InitClasses /\ [][NextClasses]_vars

\* The statements of a body whose binding is the one the finished class
\* holds: no later statement of the body binds the same name.
FinalBindings(nm) ==
    {k \in DOMAIN nm : \A j \in DOMAIN nm : j > k => nm[j] # nm[k]}

\* The statement of a body that first bound the name statement k binds.
FirstBinding(nm, k) ==
    CHOOSE j \in DOMAIN nm :
        nm[j] = nm[k] /\ \A m \in 1..(j - 1) : nm[m] # nm[k]

\* The members of a body that carry an annotation.
AnnotatedMembers(src, nm) == {k \in FinalBindings(nm) : src[k] # <<>>}

\* hs is the registry of class cls as its own body (src, nm) alone makes it:
\* one declaration per annotated member of that body and no other, in the
\* order the members were declared, each with the guard written on it.
RegistryOfBody(hs, src, nm, cls) ==
    /\ {hs[i].handler_method : i \in DOMAIN hs} = AnnotatedMembers(src, nm)
    /\ \A i, j \in DOMAIN hs :
          i < j => FirstBinding(nm, hs[i].handler_method)
                       < FirstBinding(nm, hs[j].handler_method)
    /\ \A i \in DOMAIN hs :
          /\ hs[i].defined_in = cls
          /\ hs[i].or_predicates =
                 IF src[hs[i].handler_method] = << <<>> >>
                 THEN [kind |-> "none", list |-> <<>>]
                 ELSE [kind |-> "list", list |-> src[hs[i].handler_method]]

\* The type process_event is called on.
DispatchedType == IF base.defined THEN "Derived" ELSE "Base"

\* C20: the registry of a processor type holds exactly the annotated members
\* of that type's own class body, in the order of that body; defining a
\* subtype builds the subtype's registry from the subtype's body alone and
\* leaves the registry of its base as it was, so no handler declared on the
\* base is in the subtype's registry or invoked by a dispatch on the subtype;
\* a subtype whose body has no annotated member has an empty registry, and a
\* dispatch on it calls nothing and returns.
C20_RegistryIsOwnBodyOnly ==
    /\ classState = "defined" =>
          /\ RegistryOfBody(handlers, source, names, DispatchedType)
          /\ AnnotatedMembers(source, names) = {} => handlers = <<>>
    /\ base.defined =>
          RegistryOfBody(base.handlers, base.source, base.names, "Base")
    /\ \A c \in Calls :
          /\ \A n \in DOMAIN trace[c] :
                trace[c][n].op = "call" =>
                    /\ trace[c][n].j \in AnnotatedMembers(source, names)
                    /\ trace[c][n].i \in DOMAIN handlers
                    /\ handlers[trace[c][n].i].defined_in = DispatchedType
          /\ pc[c] = "done" /\ AnnotatedMembers(source, names) = {} =>
                /\ trace[c] = <<>>
                /\ result[c] = [how |-> "returned", exc |-> NoExc]

\* A base with two handlers, a subtype that overrides the first of them with
\* a handler of its own and declares nothing else, and a finished dispatch on
\* the subtype that invoked that one handler.
C20_Witness ==
    /\ base.defined
    /\ Len(base.handlers) = 2
    /\ classState = "defined"
    /\ names = <<1>>
    /\ Len(handlers) = 1
    /\ pc[1] = "done"
    /\ \E n \in DOMAIN trace[1] : trace[1][n].op = "call"

====
